---- MODULE Spec2Model ----
(***************************************************************************)
(* gosearch: search godoc.org, filter and rank the hits, show a numbered   *)
(* table, read a selection from standard input and run "go get" on it.     *)
(*                                                                         *)
(* The repository holds two variants of the program, src/main.go and       *)
(* src/unnamed/part_000.  They share the pipeline (query, sort, filter,    *)
(* select, install) and differ in how the command line is read and in      *)
(* where the "go get" arguments come from.  The variable `variant` says    *)
(* which of the two is running.                                            *)
(*                                                                         *)
(* Go strings are modelled as sequences of one-character strings, so that  *)
(* strings.TrimSpace, strconv.Atoi, strings.Contains, the flag package's    *)
(* splitting of "-name=value" and splitQuotedFields are computed and not   *)
(* assumed.                                                                *)
(***************************************************************************)
EXTENDS Integers, Sequences, FiniteSets

VARIABLES
    variant,      \* which source file is running
    argv,         \* os.Args
    pc,           \* position of run()
    exitCode,     \* the value handed to os.Exit (-1 while running)
    flags,        \* the values bound to the flag variables
    query,        \* the search term
    goflags,      \* the pass-through arguments of "go get"
    searched,     \* whether the HTTP request has been sent
    matches,      \* the decoded (then sorted) search hits
    idx,          \* position of the filter loop in matches (1-based)
    packs,        \* the displayed hits
    rows,         \* the table rows written: <<i, installed marker, path>>
    printed,      \* kinds of message written to the terminal so far
    stdinClosed,  \* a read has met the end of the input: all later reads fail
    reads,        \* the last read of standard input: none, line or error
    input,        \* the last line read in the selector loop
    diag,         \* the value named by the last "No entry for" message
    packN,        \* the selection
    args,         \* the composed argument vector of the install command
    spawned       \* whether the install subprocess has been started

vars == <<variant, argv, pc, exitCode, flags, query, goflags, searched,
          matches, idx, packs, rows, printed, stdinClosed, reads, input,
          diag, packN, args, spawned>>

----------------------------------------------------------------------------
(* Bounds of the model.                                                    *)

\* The longest search response (number of results) the model draws.
MaxHits == 3

----------------------------------------------------------------------------
(* Strings.                                                                *)

Digits == {"0", "1", "2", "3", "4", "5", "6", "7", "8", "9"}

DigitVal(c) ==
    CASE c = "0" -> 0 [] c = "1" -> 1 [] c = "2" -> 2 [] c = "3" -> 3
      [] c = "4" -> 4 [] c = "5" -> 5 [] c = "6" -> 6 [] c = "7" -> 7
      [] c = "8" -> 8 [] c = "9" -> 9

\* unicode.IsSpace on the characters a terminal line can hold.
IsSpace(c) == c \in {" ", "\t", "\n", "\r"}

RECURSIVE TrimLeft(_)
TrimLeft(s) ==
    IF s # <<>> /\ IsSpace(Head(s)) THEN TrimLeft(Tail(s)) ELSE s

RECURSIVE TrimRight(_)
TrimRight(s) ==
    IF s # <<>> /\ IsSpace(s[Len(s)])
    THEN TrimRight(SubSeq(s, 1, Len(s) - 1))
    ELSE s

\* strings.TrimSpace
TrimSpace(s) == TrimRight(TrimLeft(s))

\* strings.Contains: substr occurs in s as a contiguous run of bytes.
Contains(s, substr) ==
    \E i \in 0..(Len(s) - Len(substr)) :
        SubSeq(s, i + 1, i + Len(substr)) = substr

\* strings.HasPrefix
HasPrefix(s, prefix) ==
    Len(s) >= Len(prefix) /\ SubSeq(s, 1, Len(prefix)) = prefix

\* strings.Index for a single byte: the 1-based place of the first c in s,
\* 0 when there is none (Go's -1).
IndexByte(s, c) ==
    IF \E i \in 1..Len(s) : s[i] = c
    THEN CHOOSE i \in 1..Len(s) : s[i] = c /\ \A j \in 1..(i - 1) : s[j] # c
    ELSE 0

RECURSIVE DecimalValue(_)
DecimalValue(s) ==
    IF s = <<>> THEN 0
    ELSE 10 * DecimalValue(SubSeq(s, 1, Len(s) - 1)) + DigitVal(s[Len(s)])

\* Atoi as C's atoi would have it: an empty string reads as 0.
Atoi_EmptyIsZero(s) ==
    LET signed == s # <<>> /\ Head(s) \in {"-", "+"}
        body   == IF signed THEN Tail(s) ELSE s
    IN  IF \E i \in 1..Len(body) : body[i] \notin Digits
        THEN [ok |-> FALSE, val |-> 0]
        ELSE [ok |-> TRUE,
              val |-> IF signed /\ Head(s) = "-"
                      THEN 0 - DecimalValue(body)
                      ELSE DecimalValue(body)]

\* strconv.Atoi: an optional sign, then one or more decimal digits.
\* The lines of the model are far shorter than the 19 digits at which a
\* 64 bit int overflows.
Atoi(s) ==
    LET signed == s # <<>> /\ Head(s) \in {"-", "+"}
        body   == IF signed THEN Tail(s) ELSE s
    IN  IF body = <<>> \/ \E i \in 1..Len(body) : body[i] \notin Digits
        THEN [ok |-> FALSE, val |-> 0]
        ELSE [ok |-> TRUE,
              val |-> IF signed /\ Head(s) = "-"
                      THEN 0 - DecimalValue(body)
                      ELSE DecimalValue(body)]

\* strconv.ParseBool
ParseBool(s) ==
    IF s \in {<<"1">>, <<"t">>, <<"T">>, <<"t","r","u","e">>,
              <<"T","R","U","E">>, <<"T","r","u","e">>}
    THEN [ok |-> TRUE, val |-> TRUE]
    ELSE IF s \in {<<"0">>, <<"f">>, <<"F">>, <<"f","a","l","s","e">>,
                   <<"F","A","L","S","E">>, <<"F","a","l","s","e">>}
    THEN [ok |-> TRUE, val |-> FALSE]
    ELSE [ok |-> FALSE, val |-> FALSE]

isSpaceByte(c) == c = " " \/ c = "\t" \/ c = "\n" \/ c = "\r"

\* The inner loop of splitQuotedFields that skips leading space bytes.
RECURSIVE TrimLeftBytes(_)
TrimLeftBytes(s) ==
    IF s # <<>> /\ isSpaceByte(Head(s)) THEN TrimLeftBytes(Tail(s)) ELSE s

\* The length of the longest prefix of s that holds no byte of stop.
RECURSIVE SpanUntil(_, _)
SpanUntil(s, stop) ==
    IF s = <<>> \/ Head(s) \in stop THEN 0 ELSE 1 + SpanUntil(Tail(s), stop)

SpaceBytes == {" ", "\t", "\n", "\r"}

\* splitQuotedFields: fields separated by spaces, '' or "" around a field
\* accepted without unescaping; an unterminated quote is an error.
RECURSIVE splitQuotedFields(_)
splitQuotedFields(s0) ==
    LET s == TrimLeftBytes(s0)
    IN  IF s = <<>> THEN [ok |-> TRUE, f |-> <<>>]
        ELSE IF Head(s) \in {"\"", "'"}
        THEN LET r == Tail(s)
                 i == SpanUntil(r, {Head(s)})
             IN  IF i >= Len(r) THEN [ok |-> FALSE, f |-> <<>>]
                 ELSE LET rest == splitQuotedFields(SubSeq(r, i + 2, Len(r)))
                      IN  [ok |-> rest.ok,
                           f  |-> IF rest.ok
                                  THEN <<SubSeq(r, 1, i)>> \o rest.f
                                  ELSE <<>>]
        ELSE LET i    == SpanUntil(s, SpaceBytes)
                 rest == splitQuotedFields(SubSeq(s, i + 1, Len(s)))
             IN  [ok |-> rest.ok,
                  f  |-> IF rest.ok THEN <<SubSeq(s, 1, i)>> \o rest.f
                         ELSE <<>>]

----------------------------------------------------------------------------
(* The command line.                                                       *)

Variants == {"main.go", "part_000"}

\* Flag names, as the bytes the flag package compares.
N_limit      == <<"l","i","m","i","t">>
N_forks      == <<"f","o","r","k","s">>
N_apps       == <<"a","p","p","s">>
N_stars      == <<"s","t","a","r","s">>
N_imports    == <<"i","m","p","o","r","t","s">>
N_minstars   == <<"m","i","n">> \o N_stars
N_minimports == <<"m","i","n">> \o N_imports
N_installed  == <<"i","n","s","t","a","l","l","e","d">>
N_inpath     == <<"i","n","p","a","t","h">>
N_goflags    == <<"g","o","f","l","a","g","s">>
N_h          == <<"h">>
N_help       == <<"h","e","l","p">>

\* The flags each variant defines: name, kind of value, the variable bound.
FlagSet(v) ==
    IF v = "main.go"
    THEN {[name |-> N_limit,     kind |-> "int",     field |-> "limit"],
          [name |-> N_forks,     kind |-> "bool",    field |-> "forks"],
          [name |-> N_apps,      kind |-> "bool",    field |-> "apps"],
          [name |-> N_stars,     kind |-> "int",     field |-> "minStars"],
          [name |-> N_imports,   kind |-> "int",     field |-> "minImports"],
          [name |-> N_installed, kind |-> "bool",    field |-> "showInstalled"],
          [name |-> N_inpath,    kind |-> "bool",    field |-> "inPath"],
          [name |-> N_goflags,   kind |-> "strings", field |-> "goflags"]}
    ELSE {[name |-> N_limit,      kind |-> "int",  field |-> "limit"],
          [name |-> N_forks,      kind |-> "bool", field |-> "forks"],
          [name |-> N_apps,       kind |-> "bool", field |-> "apps"],
          [name |-> N_minstars,   kind |-> "int",  field |-> "minStars"],
          [name |-> N_minimports, kind |-> "int",  field |-> "minImports"],
          [name |-> N_installed,  kind |-> "bool", field |-> "showInstalled"],
          [name |-> N_inpath,     kind |-> "bool", field |-> "inPath"],
          [name |-> N_h,          kind |-> "bool", field |-> "help"]}

\* The defaults given where the flags are declared.  goflags is a nil
\* slice until stringsFlag.Set stores one; part_000 has no such flag.
DefaultLimit == 10
DefaultMinStars == 1
DefaultMinImports == 0

NilStrings == [isNil |-> TRUE, elems |-> <<>>]

FlagDefaults ==
    [limit |-> DefaultLimit, forks |-> FALSE, apps |-> FALSE,
     minStars |-> DefaultMinStars, minImports |-> DefaultMinImports,
     showInstalled |-> FALSE, inPath |-> TRUE, help |-> FALSE,
     goflags |-> NilStrings]

\* flagset.Lookup
Lookup(formal, name) == {f \in formal : f.name = name}

\* stringsFlag.Set: the split fields, never a nil slice.
stringsFlagSet(s) ==
    LET r == splitQuotedFields(s)
    IN  [ok |-> r.ok, val |-> [isNil |-> FALSE, elems |-> r.f]]

\* Value.Set of the flag's kind.  An int flag is read by strconv.ParseInt
\* with base 0; the values of the model are plain decimals, where it agrees
\* with Atoi.
FlagValueSet(kind, s) ==
    CASE kind = "int"     -> Atoi(s)
      [] kind = "bool"    -> ParseBool(s)
      [] kind = "strings" -> stringsFlagSet(s)

\* FlagSet.Parse: parseOne repeated until the first non-flag argument, the
\* "--" terminator or an error.  err is "" (parsed), "help" (flag.ErrHelp)
\* or "fail" (any other parse error).
RECURSIVE FlagParse(_, _, _)
FlagParse(formal, st, a) ==
    IF a = <<>> THEN [err |-> "", st |-> st, rest |-> a]
    ELSE LET s == Head(a) IN
    IF Len(s) < 2 \/ s[1] # "-" THEN [err |-> "", st |-> st, rest |-> a]
    ELSE LET numMinuses == IF s[2] = "-" THEN 2 ELSE 1 IN
    IF numMinuses = 2 /\ Len(s) = 2
    THEN [err |-> "", st |-> st, rest |-> Tail(a)]
    ELSE LET nv == SubSeq(s, numMinuses + 1, Len(s)) IN
    IF nv = <<>> \/ nv[1] = "-" \/ nv[1] = "="
    THEN [err |-> "fail", st |-> st, rest |-> a]
    ELSE
    LET eq       == IndexByte(Tail(nv), "=")
        inline   == eq > 0
        name     == IF inline THEN SubSeq(nv, 1, eq) ELSE nv
        found    == Lookup(formal, name)
        flag     == CHOOSE f \in found : TRUE
        rest1    == Tail(a)
        \* a non-boolean flag without "=" takes the next argument
        takeNext == ~inline /\ flag.kind # "bool" /\ rest1 # <<>>
        hasValue == inline \/ takeNext
        value    == IF inline THEN SubSeq(nv, eq + 2, Len(nv))
                    ELSE IF takeNext THEN Head(rest1)
                    ELSE <<"t","r","u","e">>
        rest2    == IF takeNext THEN Tail(rest1) ELSE rest1
        set      == FlagValueSet(flag.kind, value)
    IN  IF found = {}
        THEN [err  |-> IF name \in {N_help, N_h} THEN "help" ELSE "fail",
              st   |-> st, rest |-> rest1]
        ELSE IF flag.kind # "bool" /\ ~hasValue
        THEN [err |-> "fail", st |-> st, rest |-> rest1]
        ELSE IF ~set.ok
        THEN [err |-> "fail", st |-> st, rest |-> rest2]
        ELSE FlagParse(formal, [st EXCEPT ![flag.field] = set.val], rest2)

\* flag.Arg(0): the first argument left after the flags, "" if none.
Arg0(rest) == IF rest = <<>> THEN <<>> ELSE Head(rest)

\* strings.TrimPrefix(arg, "-")
TrimDash(arg) == IF HasPrefix(arg, <<"-">>) THEN Tail(arg) ELSE arg

\* The loop of parseArgs (part_000): an argument naming a flag of the
\* flagset, or following one without a leading dash, is the program's own;
\* every other argument is passed to "go get".
RECURSIVE SplitArgs(_, _, _, _, _)
SplitArgs(formal, a, lastLocal, localArgs, goArgs) ==
    IF a = <<>> THEN [localArgs |-> localArgs, goArgs |-> goArgs]
    ELSE LET arg   == Head(a)
             norm0 == TrimDash(arg)
             i     == IndexByte(norm0, "=")
             norm  == IF i > 0 THEN SubSeq(norm0, 1, i - 1) ELSE norm0
         IN  IF Lookup(formal, norm) # {} \/ (lastLocal /\ arg[1] # "-")
             THEN SplitArgs(formal, Tail(a), TRUE,
                            Append(localArgs, arg), goArgs)
             ELSE SplitArgs(formal, Tail(a), FALSE,
                            localArgs, Append(goArgs, arg))

\* parseArgs (part_000).  outcome is "error" (the length test), "panic"
\* (os.Args[1:0], a slice whose low bound exceeds its high bound, when the
\* program is run with no argument at all) or "ok".
parseArgsTooMany(osArgs) == Len(osArgs) > 2

parseArgs(formal, osArgs) ==
    IF parseArgsTooMany(osArgs)
    THEN [outcome |-> "error", query |-> <<>>, goArgs |-> NilStrings,
          parse |-> [err |-> "", st |-> FlagDefaults, rest |-> <<>>]]
    ELSE IF 1 > Len(osArgs) - 1
    THEN [outcome |-> "panic", query |-> <<>>, goArgs |-> NilStrings,
          parse |-> [err |-> "", st |-> FlagDefaults, rest |-> <<>>]]
    ELSE LET split == SplitArgs(formal, SubSeq(osArgs, 2, Len(osArgs) - 1),
                                FALSE, <<>>, <<>>)
         IN  [outcome |-> "ok",
              query   |-> osArgs[Len(osArgs)],
              goArgs  |-> [isNil |-> split.goArgs = <<>>,
                           elems |-> split.goArgs],
              parse   |-> FlagParse(formal, FlagDefaults, split.localArgs)]

----------------------------------------------------------------------------
(* The search response and its decoding.                                   *)

\* The fields of type pack that the pipeline reads, each with its struct
\* tag: the tag's key, the name it gives and whether the quoted value is
\* closed.  (Synopsis and Score are only printed and are left out.)
PackFields(v) ==
    {[field |-> "Name",  tagKey |-> "json", tagName |-> "name",
      closed |-> TRUE],
     [field |-> "Path",  tagKey |-> "json", tagName |-> "path",
      closed |-> TRUE],
     IF v = "main.go"
     THEN [field |-> "ImportCount", tagKey |-> "bool",
           tagName |-> "import_count", closed |-> TRUE]
     ELSE [field |-> "ImportCount", tagKey |-> "json",
           tagName |-> "import_count", closed |-> FALSE],
     [field |-> "Fork",  tagKey |-> "json", tagName |-> "fork",
      closed |-> TRUE],
     [field |-> "Stars", tagKey |-> "json", tagName |-> "stars",
      closed |-> TRUE]}

\* reflect.StructTag.Get("json") as encoding/json uses it: the name of a
\* well-formed json:"name" pair, else the Go field name.
JsonKey(f) ==
    IF f.tagKey = "json" /\ f.closed /\ f.tagName # ""
    THEN f.tagName
    ELSE f.field

\* Case folding of the keys that occur (encoding/json matches a key to a
\* field exactly or, failing that, ignoring case).
ToLower(k) ==
    CASE k = "Name" -> "name"
      [] k = "Path" -> "path"
      [] k = "ImportCount" -> "importcount"
      [] k = "Fork" -> "fork"
      [] k = "Stars" -> "stars"
      [] OTHER -> k

ZeroValue(field) ==
    CASE field = "Name" -> ""
      [] field = "Path" -> <<>>
      [] field = "ImportCount" -> 0
      [] field = "Fork" -> FALSE
      [] field = "Stars" -> 0

\* The value json.Decode leaves in one field of a pack for a JSON object.
DecodeField(f, obj) ==
    LET keys == {k \in DOMAIN obj : ToLower(k) = ToLower(JsonKey(f))}
    IN  IF keys = {} THEN ZeroValue(f.field)
        ELSE obj[CHOOSE k \in keys : TRUE]

FieldOf(v, name) == CHOOSE f \in PackFields(v) : f.field = name

DecodePack(v, obj) ==
    [Name        |-> DecodeField(FieldOf(v, "Name"), obj),
     Path        |-> DecodeField(FieldOf(v, "Path"), obj),
     ImportCount |-> DecodeField(FieldOf(v, "ImportCount"), obj),
     Fork        |-> DecodeField(FieldOf(v, "Fork"), obj),
     Stars       |-> DecodeField(FieldOf(v, "Stars"), obj)]

DecodeResults(v, results) ==
    [i \in 1..Len(results) |-> DecodePack(v, results[i])]

\* The results a response is drawn from: JSON objects as the endpoint may
\* send them, the import count under either spelling of its key, optional
\* keys present or left out.
Pool ==
    << [name |-> "foo", path |-> <<"a","b">>, ImportCount |-> 2,
        fork |-> FALSE, stars |-> 2],
       [name |-> "bar", path |-> <<"b","a">>, ImportCount |-> 2,
        fork |-> TRUE, stars |-> 1],
       [name |-> "main", path |-> <<"c","a">>, stars |-> 3],
       [name |-> "main", path |-> <<"A","b">>, import_count |-> 1,
        fork |-> FALSE, stars |-> 1],
       [path |-> <<"b">>, ImportCount |-> 1, stars |-> 0],
       [name |-> "baz", path |-> <<"a">>, import_count |-> 3,
        fork |-> FALSE, stars |-> 2] >>

\* Responses: up to MaxHits results with pairwise different paths.
Responses ==
    UNION { { [i \in 1..n |-> Pool[f[i]]] :
                f \in {g \in [1..n -> 1..Len(Pool)] :
                         \A i, j \in 1..n : i # j => g[i] # g[j]} } :
            n \in 0..MaxHits }

----------------------------------------------------------------------------
(* Ranking and filtering.                                                  *)

\* packsByStars.Less and packsByImports.Less on two elements.
packsByStarsLess(a, b) == a.Stars > b.Stars

\* packsByImports.Less with the comparison turned round.
packsByImportsLess_Ascending(a, b) == a.ImportCount < b.ImportCount

packsByImportsLess(a, b) == a.ImportCount > b.ImportCount

\* The comparison the switch of run() selects.
Less(apps, a, b) ==
    IF ~apps THEN packsByImportsLess(a, b) ELSE packsByStarsLess(a, b)

IndexPermutations(n) ==
    {f \in [1..n -> 1..n] : \A i, j \in 1..n : i # j => f[i] # f[j]}

\* sort.Sort: some permutation of the slice in which no element is Less
\* than one before it.  sort.Sort is not stable, so every such permutation
\* is a possible result.
SortResults(apps, m) ==
    {s \in {[i \in 1..Len(m) |-> m[f[i]]] : f \in IndexPermutations(Len(m))} :
        \A i, j \in 1..Len(s) : i < j => ~Less(apps, s[j], s[i])}

\* The filter loop without its test for forks.
Keep_NoForkTest(fl, q, p) ==
    /\ ~(fl.apps /\ p.Name # "main")
    /\ ~(~fl.apps /\ p.Name = "main")
    /\ ~(p.Stars < fl.minStars)
    /\ ~(p.ImportCount < fl.minImports)
    /\ ~(fl.inPath /\ ~Contains(p.Path, q))

\* The five tests of the filter loop; a hit failing any is skipped.
Keep(fl, q, p) ==
    /\ ~(~fl.forks /\ p.Fork)
    /\ ~(fl.apps /\ p.Name # "main")
    /\ ~(~fl.apps /\ p.Name = "main")
    /\ ~(p.Stars < fl.minStars)
    /\ ~(p.ImportCount < fl.minImports)
    /\ ~(fl.inPath /\ ~Contains(p.Path, q))

\* The end test of the filter loop, one entry late.
LimitReached_OffByOne(limit, n) == limit > 0 /\ n > limit

\* The test that ends the filter loop after an append.
LimitReached(limit, n) == limit > 0 /\ n >= limit

\* The no-matches test made on the undisplayed hits.
NoMatches_OfMatches(m, p) == Len(m) = 0

\* The test for an empty table: m is matches, p is packs.
NoMatches(m, p) == Len(p) = 0

----------------------------------------------------------------------------
(* The inputs of a run.                                                    *)

Prog == <<"g","o","s","e","a","r","c","h">>

Dash(name) == <<"-">> \o name

DashEq(name, value) == <<"-">> \o name \o <<"=">> \o value

Q_a  == <<"a">>
Q_ab == <<"a","b">>

\* Command lines of the form  gosearch [filter flags] a : every
\* combination of the flags that make up the filter criteria.
FilterLines ==
    { <<Prog>> \o f \o a \o s \o i \o p \o l \o <<Q_a>> :
        f \in {<<>>, <<Dash(N_forks)>>},
        a \in {<<>>, <<Dash(N_apps)>>},
        s \in {<<>>, <<DashEq(N_stars, <<"2">>)>>},
        i \in {<<>>, <<Dash(N_imports), <<"1">> >>},
        p \in {<<>>, <<DashEq(N_inpath, <<"f","a","l","s","e">>)>>},
        l \in {<<>>, <<DashEq(N_limit, <<"1">>)>>,
               <<DashEq(N_limit, <<"0">>)>>} }

\* Command lines without a search term, with other search terms, with
\* pass-through arguments, with the installed marking, and malformed ones.
OtherLines ==
    { <<Prog>>,
      <<Prog, <<>> >>,
      <<Prog, Q_ab>>,
      <<Prog, Dash(N_forks)>>,
      <<Prog, Dash(N_limit), <<"1">> >>,
      <<Prog, DashEq(N_limit, <<"1">>), Q_a>>,
      <<Prog, Dash(N_h)>>,
      <<Prog, <<"-","x">>, Q_a>>,
      <<Prog, DashEq(N_stars, <<"x">>), Q_a>>,
      <<Prog, <<"-","-">>, Q_a>>,
      <<Prog, Q_a, Dash(N_apps)>>,
      <<Prog, DashEq(N_goflags, <<"-","x">>), Q_a>>,
      <<Prog, DashEq(N_goflags, <<>>), Q_a>>,
      <<Prog, DashEq(N_goflags, <<"-","u"," ","'","-","x","'">>), Q_a>>,
      <<Prog, DashEq(N_goflags, <<"'","-","x">>), Q_a>>,
      <<Prog, Dash(N_installed), DashEq(N_stars, <<"0">>),
        DashEq(N_inpath, <<"0">>), Q_a>>,
      <<Prog, DashEq(N_limit, <<"-","1">>), DashEq(N_stars, <<"0">>),
        DashEq(N_inpath, <<"0">>), Q_a>>,
      <<Prog, DashEq(N_limit, <<"2">>), DashEq(N_stars, <<"0">>),
        Dash(N_forks), Q_a>> }

CommandLines == FilterLines \cup OtherLines

\* Lines typed at the prompt, each ended by the newline ReadString stops at.
Lines ==
    { <<"1","\n">>, <<"2","\n">>, <<"3","\n">>, <<"4","\n">>, <<"5","\n">>,
      <<"0","\n">>, <<"-","1","\n">>, <<"+","1","\n">>,
      <<" ","2"," ","\r","\n">>, <<"1","0","\n">>,
      <<"\n">>, <<"a","b","c","\n">>, <<"1","a","\n">>, <<"-","\n">> }

----------------------------------------------------------------------------
(* The program.                                                            *)

\* The flag variables of run(), copied out of the parse state.
FlagVars(st) ==
    [limit |-> st.limit, forks |-> st.forks, apps |-> st.apps,
     minStars |-> st.minStars, minImports |-> st.minImports,
     showInstalled |-> st.showInstalled, inPath |-> st.inPath,
     help |-> st.help]

Init ==
    /\ variant \in Variants
    /\ argv \in CommandLines
    /\ pc = "parse"
    /\ exitCode = -1
    /\ flags = FlagVars(FlagDefaults)
    /\ query = <<>>
    /\ goflags = NilStrings
    /\ searched = FALSE
    /\ matches = <<>>
    /\ idx = 1
    /\ packs = <<>>
    /\ rows = <<>>
    /\ printed = {}
    /\ stdinClosed = FALSE
    /\ reads = "none"
    /\ input = <<>>
    /\ diag = <<>>
    /\ packN = 0
    /\ args = <<>>
    /\ spawned = FALSE

\* return n / os.Exit(n), after writing the messages msgs.
Exit(n, msgs) ==
    /\ pc' = "exit"
    /\ exitCode' = n
    /\ printed' = printed \cup msgs

\* The default of the pass-through arguments (main.go).
DefaultGoflags(g) ==
    IF g.isNil
    THEN [isNil |-> FALSE, elems |-> << <<"-","u">>, <<"-","v">> >>]
    ELSE g

\* main.go, from flag.Parse() to the call of queryGodoc.  The flag
\* package's command line set exits by itself on a parse error: status 2,
\* and for -h/-help status 0 or 2 depending on the Go release.
ParseFlags ==
    /\ pc = "parse"
    /\ variant = "main.go"
    /\ LET r == FlagParse(FlagSet("main.go"), FlagDefaults, Tail(argv))
       IN  /\ flags' = FlagVars(r.st)
           /\ IF r.err = "fail"
              THEN Exit(2, {"usage"}) /\ UNCHANGED <<query, goflags>>
              ELSE IF r.err = "help"
              THEN /\ \E code \in {0, 2} : Exit(code, {"usage"})
                   /\ UNCHANGED <<query, goflags>>
              ELSE IF Arg0(r.rest) = <<>>
              THEN /\ Exit(1, {"must provide search term", "usage"})
                   /\ UNCHANGED <<query, goflags>>
              ELSE /\ query' = Arg0(r.rest)
                   /\ goflags' = DefaultGoflags(r.st.goflags)
                   /\ pc' = "query"
                   /\ UNCHANGED <<exitCode, printed>>
    /\ UNCHANGED <<variant, argv, searched, matches, idx, packs, rows,
                   stdinClosed, reads, input, diag, packN, args, spawned>>

\* part_000, from parseArgs to the call of queryGodoc.  A run-time panic
\* ends the process with status 2.
ParseArgs ==
    /\ pc = "parse"
    /\ variant = "part_000"
    /\ LET r == parseArgs(FlagSet("part_000"), argv)
       IN  IF r.outcome = "panic"
           THEN Exit(2, {"panic"}) /\ UNCHANGED <<flags, query, goflags>>
           ELSE IF r.outcome = "error"
           THEN /\ Exit(1, {"must provide search term", "usage"})
                /\ UNCHANGED <<flags, query, goflags>>
           ELSE IF r.parse.err # ""
           THEN /\ \E code \in IF r.parse.err = "help" THEN {0, 2} ELSE {2} :
                       Exit(code, {"usage"})
                /\ flags' = FlagVars(r.parse.st)
                /\ UNCHANGED <<query, goflags>>
           ELSE /\ flags' = FlagVars(r.parse.st)
                /\ query' = r.query
                /\ goflags' = r.goArgs
                /\ IF r.parse.st.help
                   THEN Exit(1, {"usage"})
                   ELSE pc' = "query" /\ UNCHANGED <<exitCode, printed>>
    /\ UNCHANGED <<variant, argv, searched, matches, idx, packs, rows,
                   stdinClosed, reads, input, diag, packN, args, spawned>>

\* queryGodoc fails: the transport, a status other than 200, or a body
\* that does not decode.  The error is printed and run returns 1.
QueryFails ==
    /\ pc = "query"
    /\ searched' = TRUE
    /\ \E e \in {"transport", "status", "decode"} : Exit(1, {"error"})
    /\ UNCHANGED <<variant, argv, flags, query, goflags, matches, idx,
                   packs, rows, stdinClosed, reads, input, diag, packN,
                   args, spawned>>

\* queryGodoc succeeds and the results are sorted by the ranking key.
QueryGodoc ==
    /\ pc = "query"
    /\ searched' = TRUE
    /\ \E resp \in Responses :
         matches' \in SortResults(flags.apps, DecodeResults(variant, resp))
    /\ idx' = 1
    /\ pc' = "filter"
    /\ UNCHANGED <<variant, argv, exitCode, flags, query, goflags, packs,
                   rows, printed, stdinClosed, reads, input, diag, packN,
                   args, spawned>>

\* One iteration of the filter loop on matches[idx].  The installed check
\* ("go list") may answer either way when the marking is on.
FilterStep ==
    /\ pc = "filter"
    /\ idx <= Len(matches)
    /\ LET p == matches[idx]
       IN  IF Keep(flags, query, p)
           THEN /\ \E inst \in IF flags.showInstalled THEN BOOLEAN
                               ELSE {FALSE} :
                      rows' = Append(rows, [i |-> Len(rows) + 1,
                                            installed |-> inst,
                                            path |-> p.Path])
                /\ packs' = Append(packs, p)
                /\ IF LimitReached(flags.limit, Len(packs) + 1)
                   THEN pc' = "present" /\ idx' = idx
                   ELSE pc' = pc /\ idx' = idx + 1
           ELSE /\ idx' = idx + 1
                /\ UNCHANGED <<rows, packs, pc>>
    /\ UNCHANGED <<variant, argv, exitCode, flags, query, goflags,
                   searched, matches, printed, stdinClosed, reads, input,
                   diag, packN, args, spawned>>

\* After the loop: the table is flushed, the legend printed, and an empty
\* table ends the run with status 1.
Present ==
    /\ \/ pc = "present"
       \/ pc = "filter" /\ idx > Len(matches)
    /\ LET out == {"table"} \cup
                  (IF flags.showInstalled THEN {"legend"} ELSE {})
       IN  IF NoMatches(matches, packs)
           THEN Exit(1, out \cup {"no matches"})
           ELSE /\ pc' = "select"
                /\ printed' = printed \cup out
                /\ UNCHANGED exitCode
    /\ UNCHANGED <<variant, argv, flags, query, goflags, searched, matches,
                   idx, packs, rows, stdinClosed, reads, input, diag, packN,
                   args, spawned>>

\* The range test for an index counted from 0.
InRange_ZeroBased(n, count) == ~(n < 0 \/ n >= count)

\* The range test of the selector loop.
InRange(n, count) == ~(n < 1 \/ n > count)

\* A failed read that ends the run instead of going round the loop.
SelectReadError_Abort ==
    /\ pc = "select"
    /\ \E closes \in BOOLEAN : stdinClosed' = (stdinClosed \/ closes)
    /\ reads' = "error"
    /\ Exit(1, {"prompt", "error reading from stdin"})
    /\ UNCHANGED <<variant, argv, flags, query, goflags, searched, matches,
                   idx, packs, rows, input, diag, packN, args, spawned>>

\* One iteration of the selector loop whose read fails (an I/O error, or
\* the end of the input): the error is reported and the loop goes round.
\* At the end of a file or a closed pipe every later read fails as well.
SelectReadError ==
    /\ pc = "select"
    /\ \E closes \in BOOLEAN : stdinClosed' = (stdinClosed \/ closes)
    /\ reads' = "error"
    /\ printed' = printed \cup {"prompt", "error reading from stdin"}
    /\ UNCHANGED <<variant, argv, pc, exitCode, flags, query, goflags,
                   searched, matches, idx, packs, rows, input, diag, packN,
                   args, spawned>>

\* One iteration of the selector loop that reads a line.
SelectLine ==
    /\ pc = "select"
    /\ ~stdinClosed
    /\ \E line \in Lines :
         LET n == Atoi(TrimSpace(line))
         IN  /\ input' = line
             /\ reads' = "line"
             /\ packN' = n.val
             /\ IF ~n.ok
                THEN Exit(0, {"prompt"}) /\ UNCHANGED diag
                ELSE IF ~InRange(n.val, Len(packs))
                THEN /\ printed' = printed \cup {"prompt", "no entry"}
                     /\ diag' = <<n.val>>
                     /\ UNCHANGED <<pc, exitCode>>
                ELSE /\ printed' = printed \cup {"prompt", "installing"}
                     /\ pc' = "install"
                     /\ UNCHANGED <<diag, exitCode>>
    /\ UNCHANGED <<variant, argv, flags, query, goflags, searched, matches,
                   idx, packs, rows, stdinClosed, args, spawned>>

\* The argument vector of the install command.
InstallArgs(g, importPath) ==
    << <<"g","e","t">> >> \o g.elems \o <<importPath>>

\* exec.LookPath("go"), then the command line is composed and printed.
LookPath ==
    /\ pc = "install"
    /\ \E found \in BOOLEAN :
         IF ~found
         THEN Exit(1, {"could not find go"}) /\ UNCHANGED args
         ELSE /\ args' = InstallArgs(goflags, packs[packN].Path)
              /\ printed' = printed \cup {"install command", "press enter"}
              /\ pc' = "confirm"
              /\ UNCHANGED exitCode
    /\ UNCHANGED <<variant, argv, flags, query, goflags, searched, matches,
                   idx, packs, rows, stdinClosed, reads, input, diag, packN,
                   spawned>>

\* The confirmation read, whose result is ignored, then the subprocess is
\* run; its failure is printed and makes the status 1.
RunInstall ==
    /\ pc = "confirm"
    /\ reads' \in IF stdinClosed THEN {"error"} ELSE {"line", "error"}
    /\ spawned' = TRUE
    /\ \E ok \in BOOLEAN :
         IF ok THEN Exit(0, {}) ELSE Exit(1, {"error"})
    /\ UNCHANGED <<variant, argv, flags, query, goflags, searched, matches,
                   idx, packs, rows, stdinClosed, input, diag, packN, args>>

Next ==
    \/ ParseFlags
    \/ ParseArgs
    \/ QueryFails
    \/ QueryGodoc
    \/ FilterStep
    \/ Present
    \/ SelectReadError
    \/ SelectLine
    \/ LookPath
    \/ RunInstall

Spec == Init /\ [][Next]_vars

----------------------------------------------------------------------------
(* Properties.                                                             *)

\* The five predicates of the filter, as the specification words them.
Passes(p) ==
    /\ flags.forks \/ ~p.Fork
    /\ IF flags.apps THEN p.Name = "main" ELSE p.Name # "main"
    /\ p.Stars >= flags.minStars
    /\ p.ImportCount >= flags.minImports
    /\ ~flags.inPath \/ Contains(p.Path, query)

\* The ranking key selected by the application/library mode.
RankKey(p) == IF flags.apps THEN p.Stars ELSE p.ImportCount

\* The table has been written out: the filter loop is over.
TableDone == "table" \in printed

\* A decimal integer: an optional sign followed by at least one digit.
IsDecimalInteger(s) ==
    LET body == IF s # <<>> /\ s[1] \in {"+", "-"} THEN Tail(s) ELSE s
    IN  body # <<>> /\ \A i \in 1..Len(body) : body[i] \in Digits

\* C1: every displayed entry (an element of packs, a row of the table)
\* satisfies all five filter predicates; no hit violating one is displayed.
C1_DisplayedPassFilter ==
    /\ Len(rows) = Len(packs)
    /\ \A i \in 1..Len(packs) :
         /\ Passes(packs[i])
         /\ rows[i].path = packs[i].Path

C1_Witness ==
    /\ pc = "select"
    /\ Len(packs) >= 2
    /\ ~flags.forks
    /\ \E i \in 1..Len(matches) : matches[i].Fork

\* C2: the displayed sequence is non-increasing in the selected ranking key
\* (stars for applications, imports for libraries); the hits are sorted
\* before they are filtered, and the displayed entries keep that order.
C2_DisplayedRanked ==
    /\ pc \notin {"parse", "query"} =>
         \A i, j \in 1..Len(matches) :
            i < j => RankKey(matches[i]) >= RankKey(matches[j])
    /\ \A i \in 1..(Len(packs) - 1) :
         RankKey(packs[i]) >= RankKey(packs[i + 1])

C2_Witness ==
    /\ pc = "select"
    /\ ~flags.apps
    /\ Len(packs) >= 2
    /\ packs[1].ImportCount > packs[2].ImportCount

\* C3: with a positive limit at most limit entries are displayed, and the
\* filter loop is left as soon as the limit is reached; with a limit of 0
\* or less every hit that passes the filter is displayed.
C3_DisplayLimit ==
    /\ flags.limit > 0 => Len(packs) <= flags.limit
    /\ (flags.limit > 0 /\ pc = "filter") => Len(packs) < flags.limit
    /\ (flags.limit <= 0 /\ TableDone) => packs = SelectSeq(matches, Passes)

C3_Witness ==
    /\ TableDone
    /\ flags.limit = 1
    /\ Len(packs) = 1
    /\ Cardinality({i \in 1..Len(matches) : Passes(matches[i])}) >= 2

\* C4: once a line has been read that, trimmed, is not an integer, the run
\* has ended with status 0 and no install command was composed or spawned,
\* whatever out-of-range inputs came before.
C4_UnparseableDeclines ==
    (input # <<>> /\ ~IsDecimalInteger(TrimSpace(input))) =>
        /\ pc = "exit"
        /\ exitCode = 0
        /\ args = <<>>
        /\ ~spawned

C4_Witness ==
    /\ pc = "exit"
    /\ exitCode = 0
    /\ input = <<"a","b","c","\n">>
    /\ diag # <<>>
    /\ ~spawned

\* C5: an integer outside 1..N (N entries displayed) leaves the run in the
\* selector loop with a diagnostic naming it; the run goes on to the
\* installer only with an index in 1..N.
C5_SelectionInRange ==
    LET n == Atoi(TrimSpace(input))
    IN  /\ (input # <<>> /\ n.ok /\ (n.val < 1 \/ n.val > Len(packs))) =>
              /\ pc = "select"
              /\ exitCode = -1
              /\ diag = <<n.val>>
              /\ "no entry" \in printed
              /\ args = <<>>
        /\ (pc \in {"install", "confirm"} \/ args # <<>> \/ spawned) =>
              /\ packN \in 1..Len(packs)
              /\ n.ok /\ n.val = packN

C5_Witness ==
    /\ pc = "install"
    /\ Len(packs) = 1
    /\ diag = <<0>>
    /\ packN = 1

\* C6: when no hit survives the filter, the run prints the no-matches
\* message and ends with status 1, without a prompt, a read of standard
\* input or an install subprocess.
C6_NoMatchesExit ==
    (TableDone /\ Len(packs) = 0) =>
        /\ pc = "exit"
        /\ exitCode = 1
        /\ "no matches" \in printed
        /\ "prompt" \notin printed
        /\ reads = "none"
        /\ args = <<>>
        /\ ~spawned

C6_Witness ==
    /\ pc = "exit"
    /\ "no matches" \in printed
    /\ Len(matches) >= 2
    /\ Len(packs) = 0

\* The pass-through arguments the command line supplies: the value of
\* -goflags (main.go), the arguments parseArgs sets aside (part_000).
SuppliedGoArgs ==
    IF variant = "main.go"
    THEN FlagParse(FlagSet(variant), FlagDefaults, Tail(argv)).st.goflags
    ELSE parseArgs(FlagSet(variant), argv).goArgs

\* C7: the argument vector of the install command is "get", then the
\* pass-through arguments, which are -u -v when the user supplied none,
\* then the path of the entry displayed with the selected index.
C7_InstallCommand ==
    args # <<>> =>
        args = << <<"g","e","t">> >>
               \o (IF SuppliedGoArgs.isNil
                   THEN << <<"-","u">>, <<"-","v">> >>
                   ELSE SuppliedGoArgs.elems)
               \o << rows[packN].path >>

\* The command line read by the conventions of the flag package.
CommandLine == FlagParse(FlagSet(variant), FlagDefaults, Tail(argv))

\* C8: a command line without a (non-empty) search term ends the run with
\* status 1 before any search request; a command line with a search term
\* and well-formed flags is not turned away before the search.
C8_UsageError ==
    /\ (CommandLine.err = "" /\ Arg0(CommandLine.rest) = <<>>) =>
          /\ ~searched
          /\ pc # "parse" => (pc = "exit" /\ exitCode = 1)
    /\ (CommandLine.err = "" /\ Arg0(CommandLine.rest) # <<>>
          /\ ~CommandLine.st.help) =>
          ~(pc = "exit" /\ ~searched)

\* C9: a failed read in the selector loop is reported and the iteration
\* repeated, never ending the run nor selecting an entry; once standard
\* input is at its end the run stays in the selector loop.
C9_ReadErrorRetries ==
    /\ (reads = "error" /\ ~spawned) =>
          /\ pc = "select"
          /\ exitCode = -1
          /\ args = <<>>
          /\ "error reading from stdin" \in printed
    /\ stdinClosed =>
          /\ pc = "select"
          /\ exitCode = -1
          /\ ~spawned

C9_Witness ==
    /\ stdinClosed
    /\ pc = "select"
    /\ reads = "error"
    /\ diag # <<>>

\* C10: a result that carries import_count = n is decoded into a hit whose
\* import count is n.
C10_DecodesImportCount ==
    \A i \in 1..Len(matches) :
        \A k \in 1..Len(Pool) :
            (Pool[k].path = matches[i].Path
               /\ "import_count" \in DOMAIN Pool[k]) =>
                matches[i].ImportCount = Pool[k].import_count

====
